---- MODULE Spec2Model ----
(***************************************************************************)
(* Status-driven content pipeline of AI-Site: Collector, Researcher,      *)
(* Generator and Publisher over the JSON candidate store, and the         *)
(* orchestrator main() that runs them in order.                           *)
(*                                                                         *)
(* Time is counted in ticks of a third of a day, so that a date-only      *)
(* timestamp (YYYY-MM-DD, midnight UTC) differs from the instant it was   *)
(* taken at.                                                               *)
(***************************************************************************)
EXTENDS Integers, Sequences, FiniteSets, TLC

\* ---------------------------------------------------------------- bounds
MaxVideos == 2
\* and when the channels are busy
MaxListed == 8
TicksPerDay == 3

\* ------------------------------------------------------ program constants
MAX_PER_CHANNEL == 2
VIDEO_LOOKBACK_DAYS == 7
CLEANUP_PROCESSED_DAYS == 14
MAX_PENDING_CANDIDATES == 30
GOOGLE_TOP_LIMIT == 3
DEDUPE_WINDOW_DAYS == 5
ORPHAN_POST_CHECK_ENABLED == TRUE

\* ------------------------------------------------------------ environment
\* new Date().toISOString().split('T')[0], and new Date('YYYY-MM-DD').
Today(t) == t \div TicksPerDay
DateTime(d) == d * TicksPerDay
Days(n) == n * TicksPerDay

\* The instants at which processes are started: one tick into day 2, then
\* three days and ten days later.
Start == Days(2) + 1
Instants == {Start, Start + Days(3), Start + Days(10)}

\* data/sources.json: two channels.
Sources == <<"chA", "chB">>

\* The videos the listing API can return: channel, title, publish time.
\* The first two are out when the model starts, the further ones come out
\* one tick apart shortly before the last instant, the third one last.
VideoIds == 1 .. MaxVideos
\* The videos of busy channels: more than MAX_PER_CHANNEL new ones each.
ListedVideoIds == 1 .. MaxListed
VideoSource(v) == IF v % 2 = 1 THEN "chA" ELSE "chB"
VideoTitle(v) == IF v = 1 THEN "Gemini 3 Launch" ELSE IF v = 2 THEN "Gemini 3 Launch!" ELSE "GPT-5 Review"
VideoPub(v) == IF v <= 2 THEN v - 1 ELSE Start + Days(10) + 2 - v

\* Titles the drafting model may give an article.
ArticleTitles == {"Gemini 3 Launch", "GPT-5 Review"}
\* Topic keys the topic-key extraction may return.
DerivedKeys == {"gemini-3"}

Null == [kind |-> "null"]
NoTime == 0 - 1
NoPath == [date |-> NoTime, name |-> ""]

\* lib/slugify: lower-cases, drops punctuation, joins words with '-';
\* the fallback is returned when nothing is left.
slugify(text, fallback) ==
  CASE text = "Gemini 3 Launch" -> "gemini-3-launch"
    [] text = "Gemini 3 Launch!" -> "gemini-3-launch"
    [] text = "GPT-5 Review" -> "gpt-5-review"
    [] OTHER -> fallback

\* Collation rank of the slugs in use (localeCompare with numeric option).
SlugRank(s) ==
  CASE s = "gemini-3" -> 1
    [] s = "gemini-3-launch" -> 2
    [] s = "gpt-5-review" -> 3
    [] OTHER -> 0

\* ---------------------------------------------------------------- helpers
Range(s) == {s[i] : i \in 1 .. Len(s)}

Take(s, n) == SubSeq(s, 1, IF Len(s) < n THEN Len(s) ELSE n)

RECURSIVE InsertPair(_, _)
\* Stable insertion of the pair x = <<key, element>> into s, which is
\* descending by key: x goes after the pairs whose key is not smaller.
InsertPair(s, x) ==
  IF s = <<>> THEN <<x>>
  ELSE IF Head(s)[1] >= x[1] THEN <<Head(s)>> \o InsertPair(Tail(s), x)
       ELSE <<x>> \o s

RECURSIVE SortPairs(_)
SortPairs(s) ==
  IF s = <<>> THEN <<>>
  ELSE InsertPair(SortPairs(SubSeq(s, 1, Len(s) - 1)), s[Len(s)])

\* Array.prototype.sort with comparator (a, b) => key(b) - key(a), where
\* keys[i] is the key of s[i]: stable.
SortDesc(s, keys) ==
  LET sorted == SortPairs([i \in 1 .. Len(s) |-> <<keys[i], s[i]>>])
  IN [i \in 1 .. Len(s) |-> sorted[i][2]]

\* ------------------------------------------------------------------ state
VARIABLES
  now,              \* the clock, in ticks
  candidates,       \* data/candidates.json
  posts,            \* data/posts.json
  topicHistory,     \* data/topic-history.json
  files,            \* posts/*.html: path -> content
  statusSnapshot,   \* automation/output/pipeline-status.json as written by the
                    \* running process; Null before its first write
  pc,               \* position of the running process; idle when there is none
  collectorResult,  \* main()'s locals
  researcherResult,
  generatorResult,
  thrown,           \* the error a stage threw in the running process, or "none"
  drafted,          \* whether the stage executed last requested an article draft
  run,              \* the current pipeline run: stages invoked, in order,
                    \* whether every external call answered so far, and the
                    \* candidates its Collector inserted
  researchLog,      \* what the running Researcher visited and the errors list
                    \* it saved in automation/output/researcher, with the
                    \* candidates for which an external call failed; Null
                    \* when it has saved none
  calls,            \* the calls made so far to the function under study,
                    \* arguments and returned value, when a function is
                    \* studied on its own
  held              \* the candidates array a second Researcher process,
                    \* running beside the first, has read and not yet
                    \* written back; Null when no such process runs

vars == <<now, candidates, posts, topicHistory, files, statusSnapshot, pc,
          collectorResult, researcherResult, generatorResult, thrown, drafted, run,
          researchLog, calls, held, held>>

NoRun == [log |-> <<>>, extOk |-> TRUE, fresh |-> {}]

\* A stage is run either by main() at its turn or, when no process is
\* running, from its own entry point.
Resting == {"idle"}

\* The positions at which main() is about to call a stage.
InMain == pc \in {"collect", "research", "generate", "publish"}

Active(c) == c.status = "collected" \/ c.status = "researched"

Ids(cs) == {cs[i].id : i \in 1 .. Len(cs)}

\* ----------------------------------------------------------- record store
\* readCandidates / writeCandidates: whole-file read and replace.
readCandidates == candidates

\* ---------------------------------------------------------------- Collector
withinWindow(publishedAt, t) == t - publishedAt <= Days(VIDEO_LOOKBACK_DAYS)

NewCandidate(v, t) ==
  [id |-> v, source |-> VideoSource(v), title |-> VideoTitle(v),
   pubAt |-> VideoPub(v), status |-> "collected", createdAt |-> t,
   updatedAt |-> t, topicKey |-> slugify(VideoTitle(v), ""),
   method |-> "", summaries |-> NoTime,
   slug |-> NoPath, outputFile |-> NoPath, reason |-> ""]

RECURSIVE AddFresh_NoExistsCheck(_, _, _, _)
\* The loop over freshVideos without its alreadyExists test.
AddFresh_NoExistsCheck(cs, fresh, added, t) ==
  IF fresh = <<>> \/ added >= MAX_PER_CHANNEL THEN cs
  ELSE AddFresh_NoExistsCheck(Append(cs, NewCandidate(Head(fresh), t)), Tail(fresh), added + 1, t)

RECURSIVE AddFresh(_, _, _, _)
\* The loop over freshVideos: skip ids already stored, stop at the per-channel cap.
AddFresh(cs, fresh, added, t) ==
  IF fresh = <<>> \/ added >= MAX_PER_CHANNEL THEN cs
  ELSE IF Head(fresh) \in Ids(cs) THEN AddFresh(cs, Tail(fresh), added, t)
       ELSE AddFresh(Append(cs, NewCandidate(Head(fresh), t)), Tail(fresh), added + 1, t)

SeqOfSet(S) ==
  LET s == CHOOSE q \in [1 .. Cardinality(S) -> S] : Range(q) = S
  IN SortDesc(s, [i \in 1 .. Len(s) |-> VideoPub(s[i])])

RECURSIVE CollectSources(_, _, _, _)
\* The loop over the sources; listing[src] is what fetchChannelVideos gave:
\* kind "error" (thrown), "quota" (null), or "ok" with a set of videos.
CollectSources(cs, srcs, listing, t) ==
  IF srcs = <<>> THEN cs
  ELSE LET r == listing[Head(srcs)]
           fresh == IF r.kind # "ok" THEN <<>>
                    ELSE SeqOfSet({v \in r.videos : withinWindow(VideoPub(v), t)})
       IN CollectSources(AddFresh(cs, fresh, 0, t), Tail(srcs), listing, t)

ByPubAt(cs) == SortDesc(cs, [i \in 1 .. Len(cs) |-> cs[i].pubAt])
ByCreatedAt(cs) == SortDesc(cs, [i \in 1 .. Len(cs) |-> cs[i].createdAt])

\* Retention measuring age from createdAt instead of updatedAt.
Cleanup_ByCreatedAt(cs, t) ==
  SelectSeq(cs, LAMBDA c : Active(c) \/ c.createdAt >= t - Days(CLEANUP_PROCESSED_DAYS))

\* Retention: terminal candidates older than the cleanup window are dropped.
Cleanup(cs, t) ==
  SelectSeq(cs, LAMBDA c : Active(c) \/ c.updatedAt >= t - Days(CLEANUP_PROCESSED_DAYS))

\* The cap keeping the candidates published last instead of created last.
CapActive_ByPublished(cs) ==
  LET active == SelectSeq(cs, Active)
      processed == SelectSeq(cs, LAMBDA c : ~Active(c))
  IN IF Len(active) > MAX_PENDING_CANDIDATES
     THEN ByPubAt(processed \o Take(ByPubAt(active), MAX_PENDING_CANDIDATES))
     ELSE cs

\* Cap on collected + researched candidates, newest createdAt first.
CapActive(cs) ==
  LET active == SelectSeq(cs, Active)
      processed == SelectSeq(cs, LAMBDA c : ~Active(c))
  IN IF Len(active) > MAX_PENDING_CANDIDATES
     THEN ByPubAt(processed \o Take(ByCreatedAt(active), MAX_PENDING_CANDIDATES))
     ELSE cs

CollectorErrors(listing) ==
  SelectSeq(Sources, LAMBDA s : listing[s].kind = "error")

CollectorStore(cs, listing, t) ==
  CapActive(Cleanup(ByPubAt(CollectSources(cs, Sources, listing, t)), t))

\* What fetchChannelVideos can give for one channel at time t, the videos
\* that exist being ids.
ListingsOf(ids, src, t) ==
  {[kind |-> k, videos |-> {}] : k \in {"error", "quota"}} \cup
  {[kind |-> "ok", videos |-> {v \in ids : VideoSource(v) = src /\ VideoPub(v) <= t}]}

Listings(src, t) == ListingsOf(VideoIds, src, t)

\* recordFailureStatus called without its context argument.
recordFailureStatus_NoContext(error, c, r, g) ==
  [kind |-> "snapshot", status |-> "failure", generatedFile |-> NoPath,
   error |-> error, collector |-> Null, researcher |-> Null, generator |-> Null,
   addedPost |-> FALSE, totalPosts |-> 0, warnings |-> <<>>]

\* recordFailureStatus(error, context)
recordFailureStatus(error, c, r, g) ==
  [kind |-> "snapshot", status |-> "failure", generatedFile |-> NoPath,
   error |-> error, collector |-> c, researcher |-> r, generator |-> g,
   addedPost |-> FALSE, totalPosts |-> 0, warnings |-> <<>>]

\* Where control goes after a stage returned or threw: main() continues with
\* the next stage, or runs its catch block and re-throws; a stage run from
\* its own entry point ends the process, with exit code 1 when it threw.
AfterStage(next, err) ==
  IF err = "none" THEN (IF InMain THEN next ELSE "done")
  ELSE "failed"

\* main()'s catch block, entered in the same turn as the throw:
\* recordFailureStatus with the three result locals.
Caught(err) ==
  IF InMain /\ err # "none"
  THEN recordFailureStatus(err, collectorResult, researcherResult, generatorResult)
  ELSE statusSnapshot

\* The record of the pipeline run after one more stage call.
Logged(stage, ok) ==
  IF ~InMain THEN run
  ELSE [run EXCEPT !.log = Append(@, stage), !.extOk = @ /\ ok]

\* runCollector, the channels holding the videos ids.
Collect(ids) ==
  /\ pc \in Resting \cup {"collect"}
  /\ \E apiKey \in BOOLEAN, configured \in BOOLEAN,
        la \in ListingsOf(ids, Sources[1], now), lb \in ListingsOf(ids, Sources[2], now) :
       LET listing == [s \in Range(Sources) |-> IF s = Sources[1] THEN la ELSE lb]
           err == IF ~apiKey THEN "missing-credential"
                  ELSE IF ~configured THEN "no-sources" ELSE "none"
           pushed == CollectSources(readCandidates, Sources, listing, now)
           store == CollectorStore(readCandidates, listing, now)
           result == [kind |-> "collector",
                      newCandidates |-> Len(pushed) - Len(candidates),
                      totalCandidates |-> Len(store),
                      errors |-> CollectorErrors(listing)]
           ok == err = "none" /\ la.kind = "ok" /\ lb.kind = "ok"
       IN \* the listing is not consulted when a precondition fails
          /\ err # "none" => la.kind = "quota" /\ lb.kind = "quota"
          /\ candidates' = IF err = "none" THEN store ELSE candidates
          /\ thrown' = err
          /\ pc' = AfterStage("research", err)
          /\ statusSnapshot' = Caught(err)
          /\ collectorResult' = IF pc = "collect" /\ err = "none" THEN result
                                ELSE collectorResult
          /\ run' = IF pc \in Resting \/ err # "none" THEN Logged("collector", ok)
                    ELSE [Logged("collector", ok) EXCEPT
                            !.fresh = Ids(pushed) \ Ids(candidates)]
  /\ drafted' = FALSE
  /\ UNCHANGED <<now, posts, topicHistory, files, researchLog, calls, held, researcherResult,
                 generatorResult>>

RunCollector == Collect(VideoIds)

RunCollectorListed == Collect(ListedVideoIds)

\* --------------------------------------------------------------- Researcher
\* What the external calls give for one candidate: kw = did keyword
\* extraction answer, tk = the topic key extracted ("" when the call failed),
\* sr = did the web search answer, n = number of search results summarised.
\* Here the calls of one candidate answer or fail together.
ResearchOutcomes ==
  {[kw |-> TRUE, tk |-> k, sr |-> TRUE, n |-> GOOGLE_TOP_LIMIT] : k \in DerivedKeys} \cup
  {[kw |-> FALSE, tk |-> "", sr |-> FALSE, n |-> 0]}

\* The same calls answering or failing independently.
AllResearchOutcomes ==
  {[kw |-> kw, tk |-> tk, sr |-> sr, n |-> IF sr THEN GOOGLE_TOP_LIMIT ELSE 0] :
     kw \in BOOLEAN, tk \in DerivedKeys \cup {""}, sr \in BOOLEAN}

\* fetchSearchSummaries: the summaries of the results, [] when the search
\* call throws (the function catches it).
fetchSearchSummaries(o) == IF o.sr THEN o.n ELSE 0

\* The candidate as updated at the end of one loop iteration; researchedAt
\* is the same instant as updatedAt and is carried by that field.
Researched(c, o, t) ==
  [c EXCEPT !.method = IF o.kw THEN "openai" ELSE "fallback",
            !.topicKey = IF o.tk = "" THEN slugify(c.title, "ai-topic") ELSE o.tk,
            !.summaries = fetchSearchSummaries(o),
            !.status = "researched",
            !.updatedAt = t]

\* The selection without its status filter.
candidatesToResearch_All(cs) == cs

\* candidates.filter((c) => c.status === 'collected')
candidatesToResearch(cs) == SelectSeq(cs, LAMBDA c : c.status = "collected")

\* The loop over candidatesToResearch, writing each result at the index found
\* by id; out[id] is the outcome of the external calls for that candidate.
ResearchAll(cs, out, t) ==
  [i \in 1 .. Len(cs) |->
     IF cs[i].id \in Ids(candidatesToResearch(cs))
     THEN Researched(cs[i], out[cs[i].id], t) ELSE cs[i]]

\* errors: one entry per candidate whose keyword extraction failed
\* (fetchSearchSummaries catches its own failures and returns []).
ResearcherErrors(cs, out) ==
  LET todo == candidatesToResearch(cs)
  IN SelectSeq([i \in 1 .. Len(todo) |-> todo[i].id], LAMBDA id : ~out[id].kw)

\* The return statement of runResearcher after the loop: it reads
\* metrics.totalProcessed, and no binding named metrics exists in the
\* module, so evaluating the object literal throws a ReferenceError.
ResearcherReturn(cs, out) == [kind |-> "throw", error |-> "reference-error"]

\* The value runResearcher returns when nothing is collected.
ResearcherIdle ==
  [kind |-> "researcher", processed |-> 0, succeeded |-> 0, failed |-> 0]

\* main() without the early return.
MainAfterResearch_NoSkip(result) == "generate"

\* main(): after the Researcher, a run with no researched candidate returns.
MainAfterResearch(result) ==
  IF result.succeeded = 0 THEN "done" ELSE "generate"

\* What the Researcher has saved once the loop is done: the candidates it
\* visited, in order, and its errors list; faults are the candidates for
\* which keyword extraction, topic-key derivation or the search failed.
ResearchLog(cs, out) ==
  LET todo == candidatesToResearch(cs)
  IN [visited |-> [i \in 1 .. Len(todo) |-> todo[i].id],
      errors |-> ResearcherErrors(cs, out),
      faults |-> {id \in DOMAIN out : ~out[id].kw \/ out[id].tk = "" \/ ~out[id].sr}]

\* runResearcher, the external calls answering from the set outcomes.
Research(outcomes) ==
  /\ pc \in Resting \cup {"research"}
  /\ \E keys \in BOOLEAN,
        out \in [Ids(candidatesToResearch(candidates)) -> outcomes] :
       LET cs == readCandidates
           todo == candidatesToResearch(cs)
           ret == IF todo = <<>> THEN ResearcherIdle ELSE ResearcherReturn(cs, out)
           err == IF ~keys THEN "missing-credential"
                  ELSE IF ret.kind = "throw" THEN ret.error ELSE "none"
           ok == keys /\ \A id \in DOMAIN out : out[id].kw /\ out[id].tk # "" /\ out[id].sr
       IN /\ candidates' = IF keys /\ todo # <<>> THEN ResearchAll(cs, out, now)
                            ELSE candidates
          /\ thrown' = err
          /\ pc' = AfterStage(IF err = "none" THEN MainAfterResearch(ret) ELSE "failed", err)
          /\ statusSnapshot' = Caught(err)
          /\ researcherResult' = IF pc = "research" /\ err = "none" THEN ret
                                 ELSE researcherResult
          /\ run' = Logged("researcher", ok)
          /\ researchLog' = IF keys /\ todo # <<>> THEN ResearchLog(cs, out) ELSE Null
  /\ drafted' = FALSE
  /\ UNCHANGED <<now, posts, topicHistory, files, collectorResult,
                 generatorResult, calls, held>>

RunResearcher == Research(ResearchOutcomes)

RunResearcherAll == Research(AllResearchOutcomes)

\* ---------------------------------------------------------------- Generator
\* isDuplicateTopic without the cutoff comparison.
isDuplicateTopic_NoWindow(topicKey, ps, history, t) ==
  \/ \E i \in 1 .. Len(ps) : slugify(ps[i].title, "") = topicKey
  \/ \E i \in 1 .. Len(history) : history[i].topicKey = topicKey

\* isDuplicateTopic: a post whose slugified title equals the key, or a
\* history entry for the key whose lastPublishedAt is inside the window.
isDuplicateTopic(topicKey, ps, history, t) ==
  LET cutoff == t - Days(DEDUPE_WINDOW_DAYS)
      inPosts == \E i \in 1 .. Len(ps) : slugify(ps[i].title, "") = topicKey
  IN \/ inPosts
     \/ \E i \in 1 .. Len(history) :
          /\ history[i].topicKey = topicKey
          /\ DateTime(history[i].lastPublishedAt) >= cutoff

\* updateTopicHistory pushing the new entry without dropping the old ones.
updateTopicHistory_NoFilter(history, topicKey, record) ==
  Append(history,
         [topicKey |-> topicKey, lastPublishedAt |-> record.lastPublishedAt,
          draftUrl |-> record.draftUrl])

\* updateTopicHistory: drop the entries of the key, push the new one.
updateTopicHistory(history, topicKey, record) ==
  Append(SelectSeq(history, LAMBDA e : e.topicKey # topicKey),
         [topicKey |-> topicKey, lastPublishedAt |-> record.lastPublishedAt,
          draftUrl |-> record.draftUrl])

\* A selection that also retries failed candidates.
FirstResearched_Retry(cs) ==
  IF \E i \in 1 .. Len(cs) : cs[i].status \in {"researched", "failed"}
  THEN CHOOSE i \in 1 .. Len(cs) :
         /\ cs[i].status \in {"researched", "failed"}
         /\ \A j \in 1 .. i - 1 : cs[j].status \notin {"researched", "failed"}
  ELSE 0

\* The last match instead of the first.
FirstResearched_Last(cs) ==
  IF \E i \in 1 .. Len(cs) : cs[i].status = "researched"
  THEN CHOOSE i \in 1 .. Len(cs) :
         /\ cs[i].status = "researched"
         /\ \A j \in i + 1 .. Len(cs) : cs[j].status # "researched"
  ELSE 0

\* candidates.find((item) => item.status === 'researched'): index, 0 if none.
FirstResearched(cs) ==
  IF \E i \in 1 .. Len(cs) : cs[i].status = "researched"
  THEN CHOOSE i \in 1 .. Len(cs) :
         /\ cs[i].status = "researched"
         /\ \A j \in 1 .. i - 1 : cs[j].status # "researched"
  ELSE 0

\* candidates.map((item) => item.id === candidate.id ? {...item, ...patch} : item)
PatchById(cs, id, patch) ==
  [i \in 1 .. Len(cs) |-> IF cs[i].id = id THEN patch @@ cs[i] ELSE cs[i]]

TopicKeyOf(c) == IF c.topicKey # "" THEN c.topicKey ELSE slugify(c.title, "")

GenSlug(title, topicKey, t) ==
  [date |-> Today(t),
   name |-> slugify(title, IF topicKey # "" THEN topicKey ELSE "ai-topic")]

\* What requestArticleDraft gives: a thrown call or parse error, or an article.
DraftOutcomes == {[ok |-> FALSE, title |-> ""]} \cup
                 {[ok |-> TRUE, title |-> ti] : ti \in ArticleTitles}

GeneratorResult(generated, reason, id, title, path, html, t) ==
  [kind |-> "generator", generated |-> generated, reason |-> reason,
   candidateId |-> id, title |-> title, slug |-> path, relativePath |-> path,
   htmlContent |-> html, date |-> IF generated THEN Today(t) ELSE NoTime,
   publishedAt |-> IF generated THEN t ELSE NoTime]

\* runGenerator after the credential check: the stores it writes and the
\* value it returns, for the draft outcome d; generatedAt is the same
\* instant as updatedAt and is carried by that field.
GeneratorOutcome(cs, ps, history, d, t) ==
  LET k == FirstResearched(cs)
      c == cs[k]
      topicKey == TopicKeyOf(c)
      path == GenSlug(d.title, topicKey, t)
      html == [title |-> d.title, video |-> c.id, date |-> Today(t)]
      keep == [candidates |-> cs, topicHistory |-> history, draft |-> FALSE]
  IN IF k = 0
     THEN [keep EXCEPT !.draft = FALSE] @@
          [result |-> GeneratorResult(FALSE, "no-researched-candidates", 0, "", NoPath, Null, t)]
     ELSE IF isDuplicateTopic(topicKey, ps, history, t)
     THEN [candidates |-> PatchById(cs, c.id,
                            [status |-> "skipped", reason |-> "duplicate-topic",
                             updatedAt |-> t]),
           topicHistory |-> history, draft |-> FALSE,
           result |-> GeneratorResult(FALSE, "duplicate-topic", c.id, "", NoPath, Null, t)]
     ELSE IF ~d.ok
     THEN [candidates |-> PatchById(cs, c.id,
                            [status |-> "failed", reason |-> "article-generation-error",
                             updatedAt |-> t]),
           topicHistory |-> history, draft |-> TRUE,
           result |-> GeneratorResult(FALSE, "article-generation-failed", c.id, "", NoPath, Null, t)]
     ELSE [candidates |-> PatchById(cs, c.id,
                            [status |-> "generated", updatedAt |-> t,
                             topicKey |-> topicKey, slug |-> path, outputFile |-> path]),
           topicHistory |-> updateTopicHistory(history, topicKey,
                              [lastPublishedAt |-> Today(t), draftUrl |-> path]),
           draft |-> TRUE,
           result |-> GeneratorResult(TRUE, "", c.id, d.title, path, html, t)]

RunGenerator ==
  /\ pc \in Resting \cup {"generate"}
  /\ \E apiKey \in BOOLEAN, d \in DraftOutcomes :
       LET o == GeneratorOutcome(readCandidates, posts, topicHistory, d, now)
           err == IF apiKey THEN "none" ELSE "missing-credential"
       IN \* the draft outcome matters only when a draft is requested
          /\ (~apiKey \/ ~o.draft) => ~d.ok
          /\ candidates' = IF apiKey THEN o.candidates ELSE candidates
          /\ topicHistory' = IF apiKey THEN o.topicHistory ELSE topicHistory
          /\ generatorResult' = IF apiKey THEN o.result ELSE generatorResult
          /\ thrown' = err
          /\ drafted' = (apiKey /\ o.draft)
          /\ pc' = AfterStage("publish", err)
          /\ statusSnapshot' = Caught(err)
          /\ run' = Logged("generator", apiKey /\ (o.draft => d.ok))
  /\ UNCHANGED <<now, posts, files, collectorResult, researcherResult, researchLog,
                 calls, held>>

\* ---------------------------------------------------------------- Publisher
\* parseDateValue(publishedAt, date)
parseDateValue(value, fallbackDate) ==
  IF value # NoTime THEN value
  ELSE IF fallbackDate # NoTime THEN DateTime(fallbackDate) ELSE 0

\* The comparator of updatePosts as one key: effective time, then date,
\* then slug, all descending.
PostKey(post) ==
  (parseDateValue(post.publishedAt, post.date) * 100 + post.date) * 10
    + SlugRank(post.slug.name)

\* updatePosts without its filter on the url.
updatePosts_NoReplace(ps, newEntry) ==
  LET list == Append(ps, newEntry)
  IN SortDesc(list, [i \in 1 .. Len(list) |-> PostKey(list[i])])

\* updatePosts: replace the entry with the same url, push, sort.
updatePosts(ps, newEntry) ==
  LET list == Append(SelectSeq(ps, LAMBDA q : q.url # newEntry.url), newEntry)
  IN SortDesc(list, [i \in 1 .. Len(list) |-> PostKey(list[i])])

\* posts/article-template.html
TemplateFile == [date |-> NoTime, name |-> "article-template"]

\* VALIDATION.ORPHAN_POST_IGNORE
ORPHAN_POST_IGNORE == {TemplateFile}

\* findOrphanPosts without its ignore list.
findOrphanPosts_NoIgnore(fs, ps) ==
  {f \in DOMAIN fs : \A i \in 1 .. Len(ps) : ps[i].url # f}

\* findOrphanPosts: html files of posts/ that are not on the ignore list and
\* that no post record's url names.
findOrphanPosts(fs, ps) ==
  {f \in DOMAIN fs \ ORPHAN_POST_IGNORE : \A i \in 1 .. Len(ps) : ps[i].url # f}

writeFile(fs, path, html) ==
  [f \in DOMAIN fs \cup {path} |-> IF f = path THEN html ELSE fs[f]]

HasArticle(g) == g.kind = "generator" /\ g.generated /\ g.htmlContent # Null

\* The article file written whatever posts/ holds.
WritesFile_Always(fs, g) == HasArticle(g)

\* currentHtml !== nextHtml: the article file is written when posts/ has no
\* such file or one with another content.
WritesFile(fs, g) ==
  /\ HasArticle(g)
  /\ \/ g.relativePath \notin DOMAIN fs
     \/ fs[g.relativePath] # g.htmlContent

\* runPublisher: the files it leaves and the snapshot it writes and returns.
PublisherOutcome(fs, ps, c, r, g) ==
  LET entry == [title |-> g.title, date |-> g.date, url |-> g.relativePath,
                slug |-> g.slug, publishedAt |-> g.publishedAt]
      updatedPosts == IF HasArticle(g) THEN updatePosts(ps, entry) ELSE ps
      newFiles == IF WritesFile(fs, g) THEN writeFile(fs, g.relativePath, g.htmlContent) ELSE fs
      generatedFilePath == IF HasArticle(g) THEN g.relativePath ELSE NoPath
      orphans == IF ORPHAN_POST_CHECK_ENABLED THEN findOrphanPosts(newFiles, updatedPosts) ELSE {}
  IN [files |-> newFiles,
      posts |-> updatedPosts,
      status |-> [kind |-> "snapshot",
                  status |-> IF HasArticle(g) THEN "success" ELSE "skipped",
                  generatedFile |-> generatedFilePath,
                  error |-> "none",
                  collector |-> c, researcher |-> r, generator |-> g,
                  addedPost |-> updatedPosts # ps,
                  totalPosts |-> Len(updatedPosts),
                  warnings |-> IF orphans = {} THEN <<>> ELSE <<orphans>>]]

\* runPublisher is called by main() with its generatorResult, by the
\* publisher's own entry point with nothing, or by a caller of the exported
\* functions that passes on the article runGenerator has just returned.
PublisherCallable ==
  \/ pc \in Resting \cup {"publish"}
  \/ pc = "done" /\ run.log = <<>> /\ HasArticle(generatorResult)

RunPublisher ==
  /\ PublisherCallable
  /\ \E ioOk \in BOOLEAN :
       LET g == generatorResult
           o == PublisherOutcome(files, posts, collectorResult, researcherResult, g)
           err == IF ioOk THEN "none" ELSE "io-error"
       IN /\ files' = IF ioOk THEN o.files ELSE files
          /\ posts' = IF ioOk THEN o.posts ELSE posts
          \* the publisher's own entry point records the failure as well
          /\ statusSnapshot' =
               IF ioOk THEN o.status
               ELSE IF pc \in Resting THEN recordFailureStatus(err, Null, Null, Null)
               ELSE Caught(err)
          /\ thrown' = err
          /\ pc' = AfterStage("done", err)
          /\ run' = Logged("publisher", TRUE)
  /\ drafted' = FALSE
  /\ UNCHANGED <<now, candidates, topicHistory, researchLog, calls, held, collectorResult,
                 researcherResult, generatorResult>>

\* ------------------------------------------------------------------- clock
\* Time passes, while no process runs, to a later one of the given instants.
TickTo(instants) ==
  /\ pc \in Resting
  /\ \E t \in instants : t > now /\ now' = t
  /\ UNCHANGED <<candidates, posts, topicHistory, files, statusSnapshot, pc,
                 collectorResult, researcherResult, generatorResult, thrown,
                 drafted, run, researchLog, calls, held, held>>

Tick == TickTo(Instants)

Init ==
  /\ now = Start
  /\ candidates = <<>>
  /\ posts = <<>>
  /\ topicHistory = <<>>
  /\ files = [p \in {} |-> Null]
  /\ statusSnapshot = Null
  /\ pc = "idle"
  /\ collectorResult = Null
  /\ researcherResult = Null
  /\ generatorResult = Null
  /\ thrown = "none"
  /\ drafted = FALSE
  /\ run = NoRun
  /\ researchLog = Null
  /\ calls = <<>>
  /\ held = Null

\* main() starts: its three result locals are null.
StartPipeline ==
  /\ pc \in Resting
  /\ pc' = "collect"
  /\ UNCHANGED <<now, candidates, posts, topicHistory, files, statusSnapshot,
                 collectorResult, researcherResult, generatorResult, thrown,
                 drafted, run, researchLog, calls, held, held>>

\* The process ends (exit code 1 after a throw); what it held is gone.
Exit ==
  /\ pc \in {"done", "failed"}
  /\ pc' = "idle"
  /\ collectorResult' = Null
  /\ researcherResult' = Null
  /\ generatorResult' = Null
  /\ statusSnapshot' = Null
  /\ run' = NoRun
  /\ thrown' = "none"
  /\ drafted' = FALSE
  /\ researchLog' = Null
  /\ UNCHANGED <<now, candidates, posts, topicHistory, files, calls, held>>

Next ==
  \/ StartPipeline
  \/ Exit
  \/ RunCollector
  \/ RunResearcher
  \/ RunGenerator
  \/ RunPublisher
  \/ Tick

Spec == Init /\ [][Next]_vars

\* ================================================================== claims
Idx == 1 .. Len(candidates)

Stages == <<"collector", "researcher", "generator", "publisher">>

\* A process that was a pipeline run, at its end.
RunEnded == pc \in {"done", "failed"} /\ run.log # <<>>

\* The store holds a candidate with this id whose article is published:
\* its file is in posts/ and a post record names it.
ArticlePublished(id) ==
  \E i \in Idx :
    /\ candidates[i].id = id
    /\ candidates[i].outputFile \in DOMAIN files
    /\ \E k \in 1 .. Len(posts) : posts[k].url = candidates[i].outputFile

\* ---------------------------------------------------------------------- C1
\* The status moves the lifecycle allows: forward along collected,
\* researched, generated, published; collected or researched to skipped;
\* researched to failed; nothing out of skipped, failed or published.
Forward(a, b) ==
  \/ a = b
  \/ a = "collected" /\ b \in {"researched", "generated", "published", "skipped"}
  \/ a = "researched" /\ b \in {"generated", "published", "skipped", "failed"}
  \/ a = "generated" /\ b = "published"

C2_PublishedAfterPublisher ==
  (pc = "done" /\ statusSnapshot # Null /\ statusSnapshot.status = "success")
    => \E i \in Idx :
         /\ candidates[i].id = statusSnapshot.generator.candidateId
         /\ candidates[i].status = "published"

\* ---------------------------------------------------------------------- C3
\* The end of a pipeline run whose Collector inserted exactly one candidate,
\* with no other active candidate in the store, no duplicate of its topic,
\* and every external call answered.
C3_Scenario ==
  /\ RunEnded
  /\ run.extOk
  /\ Cardinality(run.fresh) = 1
  /\ \A i \in Idx : Active(candidates[i]) => candidates[i].id \in run.fresh
  /\ \A i \in Idx :
       Active(candidates[i])
         => ~isDuplicateTopic(TopicKeyOf(candidates[i]), posts, topicHistory, now)

\* C3: such a run ends normally with a success snapshot whose generatedFile
\* is the path of a written article file that a post record names as its url.
C3_EndToEnd ==
  C3_Scenario
    => /\ pc = "done"
       /\ statusSnapshot # Null
       /\ statusSnapshot.status = "success"
       /\ statusSnapshot.generatedFile \in DOMAIN files
       /\ \E k \in 1 .. Len(posts) : posts[k].url = statusSnapshot.generatedFile

C5_FailureSnapshot ==
  (pc = "failed" /\ run.log # <<>>)
    => /\ thrown # "none"
       /\ statusSnapshot # Null
       /\ statusSnapshot.status = "failure"
       /\ statusSnapshot.error = thrown
       /\ statusSnapshot.collector = collectorResult
       /\ statusSnapshot.researcher = researcherResult
       /\ statusSnapshot.generator = generatorResult
       /\ (collectorResult # Null) = (Len(run.log) >= 2)
       /\ (researcherResult # Null) = (Len(run.log) >= 3)
       /\ (generatorResult # Null) = (Len(run.log) >= 4)
       /\ run.log = SubSeq(Stages, 1, Len(run.log))

C5_Witness ==
  /\ pc = "failed"
  /\ run.log = SubSeq(Stages, 1, 2)
  /\ statusSnapshot # Null
  /\ statusSnapshot.status = "failure"
  /\ statusSnapshot.collector # Null

\* ---------------------------------------------------------------------- C6
\* C6: a pipeline run that ended normally, with every external call answered,
\* while a researched candidate was in the store, has run the Generator.
C6_ResearchedPickedUp ==
  (pc = "done" /\ run.log # <<>> /\ run.extOk
     /\ \E i \in Idx : candidates[i].status = "researched")
    => \E k \in 1 .. Len(run.log) : run.log[k] = "generator"

\* ---------------------------------------------------------------------- C7
\* The video published first.
OldestVideo == CHOOSE v \in VideoIds : \A w \in VideoIds : VideoPub(v) <= VideoPub(w)

\* What runGenerator leaves and returns for the candidate of that video,
\* collected and researched at the first instant.
GeneratedFirst ==
  GeneratorOutcome(<<Researched(NewCandidate(OldestVideo, Start),
                                [kw |-> TRUE, tk |-> "gemini-3", sr |-> TRUE, n |-> GOOGLE_TOP_LIMIT],
                                Start)>>,
                   <<>>, <<>>, [ok |-> TRUE, title |-> "Gemini 3 Launch"], Start)

\* The state after Collector, Researcher and Generator have handled the first
\* video, the Publisher call holding its article has thrown, and the process
\* has ended: the candidate is generated, nothing is published.
InitPublisherFailed ==
  /\ now = Start
  /\ candidates = GeneratedFirst.candidates
  /\ topicHistory = GeneratedFirst.topicHistory
  /\ posts = <<>>
  /\ files = [p \in {} |-> Null]
  /\ statusSnapshot = Null
  /\ pc = "idle"
  /\ collectorResult = Null
  /\ researcherResult = Null
  /\ generatorResult = Null
  /\ thrown = "none"
  /\ drafted = FALSE
  /\ run = NoRun
  /\ researchLog = Null
  /\ calls = <<>>
  /\ held = Null

SpecRerun == InitPublisherFailed /\ [][Next]_vars

\* C7: after the Publisher failed on the article of a generated candidate,
\* a later process that ended normally, a Publisher run or a pipeline run,
\* leaves that article published: file written and post record present.
C7_RepublishAfterFailure ==
  (/\ pc = "done"
   /\ generatorResult = Null
   /\ run.log # <<>> \/ (statusSnapshot # Null /\ statusSnapshot.status = "skipped"))
    => ArticlePublished(GeneratedFirst.result.candidateId)

\* ---------------------------------------------------------------------- C8
\* C8: what a stage throws is one of the listed unrecoverable conditions
\* (or a failure of the local file system, which is no external call).
C8_ThrowsOnlyUnrecoverable ==
  thrown \in {"none", "missing-credential", "no-sources", "all-sources-failed",
              "io-error"}

\* ---------------------------------------------------------------------- C9
\* C9: a Generator run leaves the store's length and order alone and changes
\* no record other than the first one, in array order, whose status is
\* researched; with no such record it writes nothing to the store, the topic
\* history, the post list or the article files.
C9_GeneratorFrame ==
  [][RunGenerator =>
       LET R == {i \in Idx : candidates[i].status = "researched"}
       IN /\ Len(candidates') = Len(candidates)
          /\ posts' = posts /\ files' = files
          /\ R = {} => candidates' = candidates /\ topicHistory' = topicHistory
          /\ \A i \in Idx :
               (\E j \in R : j < i) \/ i \notin R => candidates'[i] = candidates[i]
          /\ \A i \in R :
               (\A j \in R : i <= j) /\ thrown' = "none"
                 => /\ candidates'[i].status \in {"generated", "skipped", "failed"}
                    /\ generatorResult'.candidateId = candidates[i].id]_vars

C9_Witness ==
  \E i \in Idx : \E j \in Idx :
    /\ i < j
    /\ candidates[i].status = "generated"
    /\ candidates[i].updatedAt = now
    /\ candidates[j].status = "researched"
    /\ generatorResult # Null
    /\ generatorResult.candidateId = candidates[i].id

\* --------------------------------------------------------------------- C10
\* The candidate a Generator run selects has topic key K and the history
\* holds an entry for K dated n days before today.
EntryAged(c, n) ==
  \E k \in 1 .. Len(topicHistory) :
    /\ topicHistory[k].topicKey = TopicKeyOf(c)
    /\ Today(now) - topicHistory[k].lastPublishedAt = n

\* Nothing but history entries dated n days before today matches K.
OnlyEntriesAged(c, n) ==
  /\ \A k \in 1 .. Len(topicHistory) :
       topicHistory[k].topicKey = TopicKeyOf(c)
         => Today(now) - topicHistory[k].lastPublishedAt = n
  /\ \A k \in 1 .. Len(posts) : slugify(posts[k].title, "") # TopicKeyOf(c)

\* C10: with the window of 5 days, a Generator run whose selected candidate
\* has a history entry for its key dated 3 days ago sets it to skipped and
\* requests no draft; one whose only match is a history entry dated 10 days
\* ago does not skip it and requests the draft.
C10_DedupWindow ==
  [][RunGenerator /\ thrown' = "none" =>
       \A i \in Idx :
         (candidates[i].status = "researched"
            /\ \A j \in 1 .. i - 1 : candidates[j].status # "researched")
           => /\ EntryAged(candidates[i], 3)
                  => candidates'[i].status = "skipped" /\ ~drafted'
              /\ (EntryAged(candidates[i], 10) /\ OnlyEntriesAged(candidates[i], 10))
                  => candidates'[i].status \in {"generated", "failed"} /\ drafted']_vars

C10_Witness ==
  \E i \in Idx :
    /\ candidates[i].status = "skipped"
    /\ candidates[i].updatedAt = now
    /\ generatorResult # Null
    /\ generatorResult.candidateId = candidates[i].id
    /\ \E k \in 1 .. Len(topicHistory) :
         /\ topicHistory[k].topicKey = candidates[i].topicKey
         /\ Today(now) - topicHistory[k].lastPublishedAt = 3
    /\ posts = <<>>

\* A Generator run requested a draft for a candidate whose key has a
\* history entry dated 10 days ago.
C10_ReachedOutside ==
  \E i \in Idx :
    /\ candidates[i].status = "failed"
    /\ candidates[i].updatedAt = now
    /\ drafted
    /\ generatorResult # Null
    /\ generatorResult.candidateId = candidates[i].id
    /\ \E k \in 1 .. Len(topicHistory) :
         /\ topicHistory[k].topicKey = candidates[i].topicKey
         /\ Today(now) - topicHistory[k].lastPublishedAt = 10
    /\ posts = <<>>

\* --------------------------------------------------------------------- C11
\* C11: a candidate the Generator has just skipped as a duplicate has a match
\* inside the trailing window: a post record with its key published within
\* the last DEDUPE_WINDOW_DAYS, or a history entry for its key that recent.
C11_SkipOnlyInsideWindow ==
  \A i \in Idx :
    (/\ generatorResult # Null
     /\ generatorResult.reason = "duplicate-topic"
     /\ generatorResult.candidateId = candidates[i].id)
      => \/ \E k \in 1 .. Len(posts) :
              /\ slugify(posts[k].title, "") = TopicKeyOf(candidates[i])
              /\ parseDateValue(posts[k].publishedAt, posts[k].date)
                   >= now - Days(DEDUPE_WINDOW_DAYS)
         \/ \E k \in 1 .. Len(topicHistory) :
              /\ topicHistory[k].topicKey = TopicKeyOf(candidates[i])
              /\ DateTime(topicHistory[k].lastPublishedAt)
                   >= now - Days(DEDUPE_WINDOW_DAYS)

\* --------------------------------------------------------------------- C12
\* C12: a Generator run whose draft request failed returns generated = false
\* without throwing, has set the selected candidate to failed with the
\* failure recorded on it, and has left topic history and post list alone;
\* and no step of any stage changes a failed candidate's record again.
C12_DraftFailureTerminal ==
  [][/\ (RunGenerator /\ drafted' /\ ~generatorResult'.generated)
          => /\ thrown' = "none"
             /\ generatorResult'.reason = "article-generation-failed"
             /\ topicHistory' = topicHistory
             /\ posts' = posts
             /\ \E i \in Idx :
                  /\ candidates[i].status = "researched"
                  /\ \A j \in 1 .. i - 1 : candidates[j].status # "researched"
                  /\ generatorResult'.candidateId = candidates[i].id
                  /\ candidates'[i].status = "failed"
                  /\ candidates'[i].reason = "article-generation-error"
     /\ \A i \in Idx : \A j \in 1 .. Len(candidates') :
          (candidates[i].status = "failed" /\ candidates'[j].id = candidates[i].id)
            => candidates'[j] = candidates[i]]_vars

C12_Witness ==
  /\ thrown = "none"
  /\ drafted
  /\ generatorResult # Null
  /\ generatorResult.reason = "article-generation-failed"
  /\ \E i \in Idx :
       /\ candidates[i].id = generatorResult.candidateId
       /\ candidates[i].status = "failed"
  /\ \E i \in Idx : candidates[i].status = "failed" /\ candidates[i].updatedAt < now

\* The Collector and the Researcher alone, the Researcher's external calls
\* failing independently of each other.
NextResearch ==
  \/ StartPipeline
  \/ RunCollector
  \/ RunResearcherAll
  \/ Exit
  \/ Tick

SpecResearch == Init /\ [][NextResearch]_vars

\* What does hold of the loop: the Researcher visits the collected candidates
\* in store order, and every one of them is researched when the store is
\* saved, whatever failed for the ones before it.
ResearchVisitsAll ==
  researchLog # Null =>
    /\ \A a, b \in 1 .. Len(researchLog.visited) :
          a < b => \E i, j \in Idx : /\ i < j
                                    /\ candidates[i].id = researchLog.visited[a]
                                    /\ candidates[j].id = researchLog.visited[b]
    /\ \A i \in Idx :
          candidates[i].id \in Range(researchLog.visited) =>
            /\ candidates[i].status = "researched"
            /\ candidates[i].method \in {"openai", "fallback"}
            /\ candidates[i].topicKey # ""
            /\ candidates[i].updatedAt = now
    /\ \A i \in Idx : candidates[i].status # "collected"

\* C13: the Researcher visits every collected candidate in store order and
\* each is researched when the store is saved; a failure of keyword
\* extraction, topic-key derivation or the web search for one candidate is
\* recorded in the errors list and does not stop the later candidates.
C13_FailuresRecorded ==
  /\ ResearchVisitsAll
  /\ researchLog # Null =>
        \A id \in researchLog.faults : id \in Range(researchLog.errors)

\* ------------------------------------------------- a store that has filled
\* A candidate collected from a video the listings no longer return.
StoredCandidate(id, status, createdAt, updatedAt) ==
  [id |-> id, source |-> Sources[1], title |-> "GPT-5 Review",
   pubAt |-> 0, status |-> status, createdAt |-> createdAt,
   updatedAt |-> updatedAt, topicKey |-> slugify("GPT-5 Review", ""),
   method |-> "", summaries |-> NoTime,
   slug |-> NoPath, outputFile |-> NoPath, reason |-> ""]

\* Statuses the Generator leaves on a candidate.
ProcessedStatuses == <<"failed", "skipped", "generated">>

\* A store after many runs: n collected or researched candidates created at
\* various times before Start, and for each status the Generator leaves two
\* candidates, one last updated just before Start and one at Start.
FilledStore(n) ==
  [k \in 1 .. n |->
     StoredCandidate(MaxListed + k,
                     IF k % 2 = 0 THEN "collected" ELSE "researched",
                     k % Start, k % Start)] \o
  [j \in 1 .. 2 * Len(ProcessedStatuses) |->
     StoredCandidate(MaxListed + MAX_PENDING_CANDIDATES + j,
                     ProcessedStatuses[(j + 1) \div 2],
                     0, Start - (j % 2))]

InitFilled ==
  /\ now = Start
  /\ \E n \in MAX_PENDING_CANDIDATES - 1 .. MAX_PENDING_CANDIDATES :
       candidates = FilledStore(n)
  /\ posts = <<>>
  /\ topicHistory = <<>>
  /\ files = [p \in {} |-> Null]
  /\ statusSnapshot = Null
  /\ pc = "idle"
  /\ collectorResult = Null
  /\ researcherResult = Null
  /\ generatorResult = Null
  /\ thrown = "none"
  /\ drafted = FALSE
  /\ run = NoRun
  /\ researchLog = Null
  /\ calls = <<>>
  /\ held = Null

\* The instants by which the first videos have left the lookback window, and
\* the one a cleanup window after Start.
LateInstants ==
  {t \in Instants : t > Start + Days(VIDEO_LOOKBACK_DAYS)} \cup
  {Start + Days(CLEANUP_PROCESSED_DAYS)}

TickLate == TickTo(LateInstants)

\* The Collector run from its own entry point, over a filled store.
NextCollect ==
  \/ RunCollectorListed
  \/ Exit
  \/ TickLate

SpecCollect == InitFilled /\ [][NextCollect]_vars

\* The stores a Collector step can have held between retention and the cap:
\* one per choice of the sources whose listing was an array (a source whose
\* listing threw and one whose listing was null add nothing alike).
BeforeCap ==
  {Cleanup(ByPubAt(CollectSources(candidates, Sources, listing, now)), now) :
     listing \in {l \in [Range(Sources) -> UNION {ListingsOf(ListedVideoIds, src, now) : src \in Range(Sources)}] :
                    \A src \in Range(Sources) : /\ l[src] \in ListingsOf(ListedVideoIds, src, now)
                                                 /\ l[src].kind # "error"}}

ActiveOf(cs) == SelectSeq(cs, Active)

\* C14: after every Collector run at most MAX_PENDING_CANDIDATES candidates
\* are collected or researched; when more existed before the cap, exactly
\* MAX_PENDING_CANDIDATES survive, none created before a dropped one, and no
\* candidate in another status is removed by the cap.
C14_CapKeepsNewest ==
  [][RunCollectorListed =>
       /\ Len(ActiveOf(candidates')) <= MAX_PENDING_CANDIDATES
       /\ thrown' = "none" =>
             \E pre \in BeforeCap :
               /\ candidates' = CapActive(pre)
               /\ Range(ActiveOf(candidates')) \subseteq Range(ActiveOf(pre))
               /\ Len(ActiveOf(pre)) > MAX_PENDING_CANDIDATES =>
                     /\ Len(ActiveOf(candidates')) = MAX_PENDING_CANDIDATES
                     /\ \A c \in Range(ActiveOf(pre)) \ Range(candidates') :
                           \A k \in Range(ActiveOf(candidates')) :
                             k.createdAt >= c.createdAt
               /\ \A c \in Range(pre) : ~Active(c) => c \in Range(candidates')]_vars

\* The cap has acted: new candidates are in, a stored one is gone, and
\* exactly MAX_PENDING_CANDIDATES collected or researched ones are left.
C14_Witness ==
  /\ pc = "done"
  /\ thrown = "none"
  /\ Len(ActiveOf(candidates)) = MAX_PENDING_CANDIDATES
  /\ Ids(candidates) \cap ListedVideoIds # {}
  /\ \E k \in 1 .. MAX_PENDING_CANDIDATES : MaxListed + k \notin Ids(candidates)
  /\ \E c \in Range(candidates) : ~Active(c)

Terminal(c) == c.status \in {"published", "skipped", "failed"}

\* Last updated before the cleanup cutoff of a run at the current time.
PastRetention(c) == c.updatedAt < now - Days(CLEANUP_PROCESSED_DAYS)

\* C15: the retention step removes a candidate on account of age only if it
\* is published, skipped or failed and was last updated more than
\* CLEANUP_PROCESSED_DAYS ago; every such candidate is removed, and a
\* candidate in any other status is never removed by age (the cap removes
\* only collected and researched ones, so a stored candidate in another
\* status that is gone after a run was removed by age).
C15_RetentionTerminalOnly ==
  [][RunCollectorListed /\ thrown' = "none" =>
       \A c \in Range(candidates) :
         /\ Terminal(c) /\ PastRetention(c) => c.id \notin Ids(candidates')
         /\ ~Active(c) /\ c.id \notin Ids(candidates') => Terminal(c) /\ PastRetention(c)]_vars

\* C15, with the statuses the code tests: a candidate is removed on account of age exactly
\* when its status is neither collected nor researched (generated included)
\* and it was last updated more than CLEANUP_PROCESSED_DAYS ago; a collected
\* or researched candidate leaves the store only through the cap.
C15_RetentionNonActive ==
  [][RunCollectorListed /\ thrown' = "none" =>
       \A c \in Range(candidates) :
         /\ ~Active(c) => (c.id \notin Ids(candidates') <=> PastRetention(c))
         /\ Active(c) /\ c.id \notin Ids(candidates') =>
               /\ Len(ActiveOf(candidates')) = MAX_PENDING_CANDIDATES
               /\ \A k \in Range(ActiveOf(candidates')) : k.createdAt >= c.createdAt
         /\ c.id \in Ids(candidates') => c \in Range(candidates')]_vars

\* A run a cleanup window after Start has dropped the processed candidates
\* last updated before Start, kept the ones updated at Start, and kept
\* collected or researched candidates that are older still.
C15_Witness ==
  /\ pc = "done"
  /\ thrown = "none"
  /\ now = Start + Days(CLEANUP_PROCESSED_DAYS)
  /\ \A s \in Range(ProcessedStatuses) :
        \E c \in Range(candidates) : c.status = s /\ c.updatedAt = Start
  /\ \A c \in Range(candidates) : ~Active(c) => ~PastRetention(c)
  /\ \E c \in Range(candidates) : Active(c) /\ PastRetention(c)

\* The candidates a Collector step inserted from source src.
InsertedFrom(src) ==
  {c \in Range(candidates') : c.id \notin Ids(candidates) /\ c.source = src}

\* The videos source src lists now, inside the lookback window, that are
\* neither in the store before the step nor after it.
LeftOut(src) ==
  {v \in ListedVideoIds : /\ VideoSource(v) = src
                          /\ VideoPub(v) <= now
                          /\ withinWindow(VideoPub(v), now)
                          /\ v \notin Ids(candidates) \cup Ids(candidates')}

\* C16: Collector runs keep the ids of the store pairwise distinct: a
\* candidate whose id is in the store stays as it is and is not inserted
\* again, at most MAX_PER_CHANNEL candidates are inserted per source per run,
\* none published before a video of the source that was left out, and every
\* inserted candidate is collected.
C16_IdsStayDistinct ==
  [][RunCollectorListed =>
       /\ Len(candidates) = Cardinality(Ids(candidates)) =>
             Len(candidates') = Cardinality(Ids(candidates'))
       /\ \A c \in Range(candidates) : c.id \in Ids(candidates') => c \in Range(candidates')
       /\ \A src \in Range(Sources) :
             /\ Cardinality(InsertedFrom(src)) <= MAX_PER_CHANNEL
             /\ \A c \in InsertedFrom(src) :
                   /\ c.status = "collected"
                   /\ VideoSource(c.id) = src
                   /\ \A v \in LeftOut(src) : VideoPub(c.id) >= VideoPub(v)
       /\ \A c \in Range(candidates') :
             c.id \notin Ids(candidates) => c.source \in Range(Sources)]_vars

\* Two runs at one instant over a source listing more than MAX_PER_CHANNEL
\* new videos: the second run skipped what the first had inserted and
\* inserted the next video, and the ids are pairwise distinct.
C16_Witness ==
  /\ pc = "done"
  /\ thrown = "none"
  /\ Len(candidates) = Cardinality(Ids(candidates))
  /\ \E src \in Range(Sources) :
        Cardinality({c \in Range(candidates) :
                       /\ c.id \in ListedVideoIds
                       /\ c.source = src
                       /\ c.createdAt = now}) > MAX_PER_CHANNEL

\* C17: when every configured source fails, runCollector throws instead of
\* returning a normal result: no result it returns lists every source among
\* its errors. (When a source succeeded, the errors of the others are in
\* the result and the run goes on.)
C17_AllSourcesFailedThrows ==
  collectorResult # Null => Range(collectorResult.errors) # Range(Sources)

\* What does hold when sources fail: a source that failed, alone or not, is
\* in the errors of a normal result, and main() goes on to the Researcher.
C17_SomeSourceFailedContinues ==
  [][(RunCollector /\ pc = "collect" /\ thrown' = "none") =>
       /\ collectorResult' # Null
       /\ pc' = "research"]_vars

\* C18: a source whose video listing fails with a quota or auth error is
\* recorded in the errors list of the Collector's result and skipped, the
\* other sources being processed: when the Collector of a pipeline run has
\* returned and a listing call had failed, its errors list is not empty.
C18_ListingFailureRecorded ==
  (/\ collectorResult # Null
   /\ run.log = <<"collector">>
   /\ ~run.extOk)
    => collectorResult.errors # <<>>

\* The last thing that happened was a Publisher run that published the
\* article the process holds.
JustPublished ==
  /\ HasArticle(generatorResult)
  /\ statusSnapshot # Null
  /\ statusSnapshot.status = "success"
  /\ statusSnapshot.generator = generatorResult

\* C19: a second Publisher run in succession with the same Generator output
\* does not write the article file and leaves the Post Record list as it
\* is, without writing it.
C19_SecondPublishWritesNothing ==
  [][(RunPublisher /\ JustPublished /\ thrown' = "none") =>
       /\ ~WritesFile(files, generatorResult)
       /\ files' = files
       /\ posts' = posts
       /\ ~statusSnapshot'.addedPost
       /\ statusSnapshot'.status = "success"]_vars

\* The second run has happened: the article is published, its file and Post
\* Record are there, and the run reports that it did not change the list.
C19_Witness ==
  /\ JustPublished
  /\ thrown = "none"
  /\ ~statusSnapshot.addedPost
  /\ generatorResult.relativePath \in DOMAIN files
  /\ files[generatorResult.relativePath] = generatorResult.htmlContent
  /\ \E k \in 1 .. Len(posts) : posts[k].url = generatorResult.relativePath
  /\ Len(posts) > 1

\* ------------------------------------------- a post list that has entries
\* The days of the stored posts: the day before Start and the day of Start.
PostDates == {Today(Start) - 1, Today(Start)}

\* The Post Records data/posts.json can hold for those days: one of the
\* article titles, and a publishedAt that is missing (the date then counts)
\* or one tick into the day.
PostUniverse ==
  {[title |-> ti, date |-> d, url |-> GenSlug(ti, "", DateTime(d)),
    slug |-> GenSlug(ti, "", DateTime(d)), publishedAt |-> p] :
     ti \in ArticleTitles, d \in PostDates,
     p \in {NoTime} \cup {DateTime(e) + 1 : e \in PostDates}}

\* The set S of Post Records in the order updatePosts leaves them in.
SortedPosts(S) ==
  LET s == CHOOSE q \in [1 .. Cardinality(S) -> S] : Range(q) = S
  IN SortDesc(s, [i \in 1 .. Len(s) |-> PostKey(s[i])])

\* The lists data/posts.json can hold: one record per url, each published
\* on its date, sorted.
StoredPostLists ==
  {SortedPosts(S) :
     S \in {T \in SUBSET PostUniverse :
              /\ \A a, b \in T : a.url = b.url => a = b
              /\ \A a \in T : Today(parseDateValue(a.publishedAt, a.date)) = a.date}}

\* posts/ holding one file per record of ps.
FilesOf(ps) ==
  [u \in {ps[k].url : k \in 1 .. Len(ps)} |->
     [title |-> (CHOOSE q \in Range(ps) : q.url = u).title, video |-> 0, date |-> u.date]]

\* Files posts/ can hold beside those: the template, a draft written under
\* the default name, and an article file of today left without its record.
StrayFile == [date |-> NoTime, name |-> "draft"]
UnregisteredFile == GenSlug("Gemini 3 Launch", "", Start)
ExtraFiles == {TemplateFile, StrayFile, UnregisteredFile}

\* posts/ holding the files of ps and the files extra.
FilesWith(ps, extra) ==
  [u \in DOMAIN FilesOf(ps) \cup extra |->
     IF u \in DOMAIN FilesOf(ps) THEN FilesOf(ps)[u]
     ELSE [title |-> "", video |-> 0, date |-> u.date]]

\* What runGenerator leaves and returns at Start for the candidate of the
\* first video when data/posts.json holds ps and the draft is titled ti.
GeneratedAmong(ps, ti) ==
  GeneratorOutcome(<<Researched(NewCandidate(OldestVideo, Start),
                                [kw |-> TRUE, tk |-> "gemini-3", sr |-> TRUE, n |-> GOOGLE_TOP_LIMIT],
                                Start)>>,
                   ps, <<>>, [ok |-> TRUE, title |-> ti], Start)

\* A caller of the exported functions has run runGenerator and holds what
\* it returned; data/posts.json has entries.
InitHolding ==
  /\ now = Start
  /\ \E ps \in StoredPostLists, ti \in ArticleTitles, extra \in SUBSET ExtraFiles :
       /\ posts = ps
       /\ files = FilesWith(ps, extra)
       /\ candidates = GeneratedAmong(ps, ti).candidates
       /\ topicHistory = GeneratedAmong(ps, ti).topicHistory
       /\ generatorResult = GeneratedAmong(ps, ti).result
       /\ drafted = GeneratedAmong(ps, ti).draft
  /\ statusSnapshot = Null
  /\ pc = "done"
  /\ collectorResult = Null
  /\ researcherResult = Null
  /\ thrown = "none"
  /\ run = NoRun
  /\ researchLog = Null
  /\ calls = <<>>
  /\ held = Null

NextPublish ==
  \/ RunPublisher
  \/ Exit

SpecPublish == InitHolding /\ [][NextPublish]_vars

\* parseDateValue(post.publishedAt, post.date)
EffectiveTime(post) == parseDateValue(post.publishedAt, post.date)

Orphans(fs, ps) ==
  {f \in DOMAIN fs : /\ f \notin ORPHAN_POST_IGNORE
                      /\ \A k \in 1 .. Len(ps) : ps[k].url # f}

MaxCalls == 2

\* UTF-16 code units of the strings in use (String.prototype.charCodeAt).
CharCodes(s) ==
  CASE s = "ai-info-blog" -> <<97, 105, 45, 105, 110, 102, 111, 45, 98, 108, 111, 103>>
    [] s = "ai-info" -> <<97, 105, 45, 105, 110, 102, 111>>
    [] s = "gemini-3" -> <<103, 101, 109, 105, 110, 105, 45, 51>>
    [] s = "Gemini 3 Launch" -> <<71, 101, 109, 105, 110, 105, 32, 51, 32, 76, 97, 117, 110, 99, 104>>
    [] s = "GPT-5 Review" -> <<71, 80, 84, 45, 53, 32, 82, 101, 118, 105, 101, 119>>
    [] s = "yt-1" -> <<121, 116, 45, 49>>
    [] s = "a" -> <<97>>
    [] s = "b" -> <<98>>
    [] OTHER -> <<>>

\* A 32-bit pattern is kept as two 16-bit halves [hi, lo].
Half == 2 ^ 16

\* hash = (hash * 31 + charCode) & 0xffffffff
HashStep(hash, charCode) ==
  LET lo == (hash.lo * 31) + charCode
      hi == (hash.hi * 31) + (lo \div Half)
  IN [hi |-> hi % Half, lo |-> lo % Half]

RECURSIVE HashOf(_)
\* The loop over the characters of the seed, from hash = 0.
HashOf(codes) ==
  IF codes = <<>> THEN [hi |-> 0, lo |-> 0]
  ELSE HashStep(HashOf(SubSeq(codes, 1, Len(codes) - 1)), codes[Len(codes)])

\* The result of & is a signed 32-bit integer: negative when bit 31 is set.
Negative(hash) == hash.hi >= Half \div 2

\* Math.abs(hash), a number from 0 to 2^31, as halves.
AbsHash(hash) ==
  IF ~Negative(hash) THEN hash
  ELSE IF hash.lo = 0 THEN [hi |-> Half - hash.hi, lo |-> 0]
  ELSE [hi |-> Half - 1 - hash.hi, lo |-> Half - hash.lo]

\* value % n for a non-negative value kept as halves.
ModOf(value, n) == ((value.hi % n) * (Half % n) + (value.lo % n)) % n

\* normalizedSeed without the default for an empty seed.
normalizedSeed_AsGiven(seed) == seed

\* normalizedSeed = seed ? String(seed) : 'ai-info-blog'
normalizedSeed(seed) == IF seed = <<>> THEN CharCodes("ai-info-blog") ELSE seed

\* Math.abs(hash) % pool.length
PickIndex(n, seed) == ModOf(AbsHash(HashOf(normalizedSeed(seed))), n)

\* deterministicPickFromPool(pool, seed), seed given by its code units.
deterministicPickFromPool(pool, seed) ==
  IF Len(pool) = 0 THEN Null ELSE pool[PickIndex(Len(pool), seed) + 1]

\* normalizeTagToken: NFKC, trim, lower case, single spaces.
normalizeTagToken(value) ==
  CASE value = "ChatGPT" -> "chatgpt"
    [] value = "Gemini" -> "gemini"
    [] value = "Launch" -> "launch"
    [] value = "GPT" -> "gpt"
    [] value = "Review" -> "review"
    [] OTHER -> value

\* title.split(/[\s・／/、。:+\-]+/)
TitleWords(title) ==
  CASE title = "Gemini 3 Launch" -> {"Gemini", "3", "Launch"}
    [] title = "GPT-5 Review" -> {"GPT", "5", "Review"}
    [] OTHER -> {}

\* topicKey.split(/[-_]+/), the same for a slug
KeyWords(key) ==
  CASE key = "gemini-3" -> {"gemini", "3"}
    [] key = "" -> {}
    [] OTHER -> {key}

\* assets/img/articles/index.json as buildArticleImagePool returns it.
ImageManifest ==
  <<[key |-> "ai-core-01", topics |-> {"ai"}, category |-> "general"],
    [key |-> "gemini-01", topics |-> {"gemini", "google"}, category |-> "llm"],
    [key |-> "chatgpt-01", topics |-> {"chatgpt", "openai"}, category |-> "llm"]>>

\* gatherImageTokens(article, candidate)
gatherImageTokens(article, candidate) ==
  {normalizeTagToken(v) :
     v \in article.tags \cup candidate.focus
            \cup {candidate.topicKey} \cup KeyWords(candidate.topicKey)
            \cup {article.slug} \cup KeyWords(article.slug)
            \cup TitleWords(article.title) \cup TitleWords(candidate.videoTitle)} \ {""}

\* The seed of selectArticleImage.
ImageSeed(article, candidate) ==
  IF candidate.topicKey # "" THEN candidate.topicKey
  ELSE IF article.slug # "" THEN article.slug
  ELSE IF article.title # "" THEN article.title
  ELSE IF candidate.id # "" THEN candidate.id
  ELSE "ai-info"

\* The selection seeded with the article's summary.
selectArticleImage_SeedSummary(pool, article, candidate) ==
  LET tokens == gatherImageTokens(article, candidate)
      matched == SelectSeq(pool, LAMBDA e : e.topics \cap tokens # {} \/ e.category \in tokens)
      from == IF Len(matched) > 0 THEN matched ELSE pool
  IN IF Len(pool) = 0 THEN Null
     ELSE [key |-> deterministicPickFromPool(from, CharCodes(article.summary)).key]

\* selectArticleImage(article, candidate) of the selector created over pool;
\* of the image picked its key is kept. (A non-empty pool always gives a pick, so
\* the default image is never used.)
selectArticleImage(pool, article, candidate) ==
  LET tokens == gatherImageTokens(article, candidate)
      matched == SelectSeq(pool, LAMBDA e : e.topics \cap tokens # {} \/ e.category \in tokens)
      from == IF Len(matched) > 0 THEN matched ELSE pool
  IN IF Len(pool) = 0 THEN Null
     ELSE [key |-> deterministicPickFromPool(from, CharCodes(ImageSeed(article, candidate))).key]

\* The drafted articles as the Generator hands them to the selector (the
\* draft has no slug), the candidates, and the image pools.
DraftedArticles ==
  {[title |-> ti, tags |-> tg, slug |-> "", summary |-> su] :
     ti \in ArticleTitles, tg \in {{}, {"ChatGPT"}}, su \in {"a", "b"}}

ImageCandidates ==
  {[id |-> "yt-1", topicKey |-> k, focus |-> {}, videoTitle |-> "Gemini 3 Launch"] :
     k \in DerivedKeys \cup {""}}

ImagePools == {<<>>, ImageManifest}

\* One call of selectArticleImage.
SelectImage ==
  /\ Len(calls) < MaxCalls
  /\ \E pool \in ImagePools, article \in DraftedArticles, candidate \in ImageCandidates :
       calls' = Append(calls, [pool |-> pool, article |-> article, candidate |-> candidate,
                               value |-> selectArticleImage(pool, article, candidate)])
  /\ UNCHANGED <<now, candidates, posts, topicHistory, files, statusSnapshot, pc,
                 collectorResult, researcherResult, generatorResult, thrown,
                 drafted, run, researchLog, held>>

SpecImage == Init /\ [][SelectImage]_vars

CallIdx == 1 .. Len(calls)

\* The articles differ at most in their summary.
SameButSummary(a, b) == [a EXCEPT !.summary = ""] = [b EXCEPT !.summary = ""]

\* The articles agree on the fields a seed is taken from.
SameSeedFields(a, b) == a.slug = b.slug /\ a.title = b.title

C23_SameImageOnRerun ==
  \A i, j \in CallIdx :
    (/\ calls[i].pool = calls[j].pool
     /\ calls[i].candidate = calls[j].candidate
     /\ calls[i].candidate.topicKey # "")
      => calls[i].value = calls[j].value

\* ------------------------------------------------------ C24: topic history
DistinctKeys(history) ==
  \A i, j \in 1 .. Len(history) :
    history[i].topicKey = history[j].topicKey => i = j

\* The candidates a step moves to generated.
NewlyGenerated ==
  {i \in 1 .. Len(candidates') :
     /\ candidates'[i].status = "generated"
     /\ \A j \in 1 .. Len(candidates) :
          candidates[j].id = candidates'[i].id => candidates[j].status # "generated"}

\* C24: from a topic history with pairwise distinct keys, every step leaves
\* the keys pairwise distinct; a step that moves a candidate to generated
\* leaves the entries of the other keys as they were, in order, followed by
\* one new entry for the candidate's key; any other step (a generator run
\* that ends skipped, failed or without work included) leaves the history
\* unchanged.
C24_OneEntryPerTopicKey ==
  [][DistinctKeys(topicHistory) =>
       /\ DistinctKeys(topicHistory')
       /\ \A i \in NewlyGenerated :
            LET K == candidates'[i].topicKey
                others == SelectSeq(topicHistory, LAMBDA e : e.topicKey # K)
            IN /\ Len(topicHistory') = Len(others) + 1
               /\ SubSeq(topicHistory', 1, Len(others)) = others
               /\ topicHistory'[Len(topicHistory')].topicKey = K
               /\ topicHistory'[Len(topicHistory')].lastPublishedAt = Today(now)
       /\ NewlyGenerated = {} => topicHistory' = topicHistory]_vars

\* Two candidates of one key are generated and the history holds the later one only.
C24_Witness ==
  \E i, j \in 1 .. Len(candidates) :
    /\ i # j
    /\ candidates[i].status = "generated"
    /\ candidates[j].status = "generated"
    /\ candidates[i].topicKey = candidates[j].topicKey
    /\ Len(topicHistory) = 1
    /\ topicHistory[1].topicKey = candidates[i].topicKey
    /\ candidates[i].updatedAt < candidates[j].updatedAt
    /\ topicHistory[1].lastPublishedAt = Today(candidates[j].updatedAt)

\* ------------------------------------------------------- C25: dedup window
\* A store the Researcher has filled: three researched candidates, each with
\* a key it derived.
ResearchedStore(keys) ==
  [i \in 1 .. 3 |->
     [StoredCandidate(i, "researched", Days(2), Days(2)) EXCEPT
        !.topicKey = keys[i], !.method = "openai", !.summaries = 0]]

\* Generator runs start at any time of day 2.
InitResearched ==
  /\ now \in {Days(2) + k : k \in 0 .. TicksPerDay - 1}
  /\ \E keys \in [1 .. 3 -> DerivedKeys \cup {"gpt-5"}] :
       candidates = ResearchedStore(keys)
  /\ posts = <<>>
  /\ topicHistory = <<>>
  /\ files = [p \in {} |-> Null]
  /\ statusSnapshot = Null
  /\ pc = "idle"
  /\ collectorResult = Null
  /\ researcherResult = Null
  /\ generatorResult = Null
  /\ thrown = "none"
  /\ drafted = FALSE
  /\ run = NoRun
  /\ researchLog = Null
  /\ calls = <<>>
  /\ held = Null

\* Any time of the day on which the window of day 2 ends, and of the day before.
WindowEndInstants ==
  {Days(2 + DEDUPE_WINDOW_DAYS - 1) + k : k \in 0 .. 2 * TicksPerDay - 1}

TickWindowEnd == TickTo(WindowEndInstants)

NextDedupe == RunGenerator \/ Exit \/ TickWindowEnd

SpecDedupe == InitResearched /\ [][NextDedupe]_vars

\* C25: two different candidates with the same topic key are never both
\* generated less than DEDUPE_WINDOW_DAYS full days apart.
C25_GeneratedWindowApart ==
  \A i, j \in 1 .. Len(candidates) :
    (/\ i # j
     /\ candidates[i].status = "generated"
     /\ candidates[j].status = "generated"
     /\ candidates[i].topicKey = candidates[j].topicKey
     /\ candidates[i].updatedAt <= candidates[j].updatedAt)
      => candidates[j].updatedAt - candidates[i].updatedAt >= Days(DEDUPE_WINDOW_DAYS)

\* The same with the window measured from the start of the day of the
\* earlier generation, as the history entry records it.
GeneratedWindowApartByDate ==
  \A i, j \in 1 .. Len(candidates) :
    (/\ i # j
     /\ candidates[i].status = "generated"
     /\ candidates[j].status = "generated"
     /\ candidates[i].topicKey = candidates[j].topicKey
     /\ candidates[i].updatedAt <= candidates[j].updatedAt)
      => candidates[j].updatedAt - DateTime(Today(candidates[i].updatedAt))
           > Days(DEDUPE_WINDOW_DAYS)

\* ------------------------------------------------- C26: concurrent writers
\* A second Researcher process, started while another process may run. Its
\* readCandidates() and its writeCandidates() are separated by the awaited
\* external calls and sleeps of its loop, so they are two steps.
OtherResearcherRead ==
  /\ held = Null
  /\ candidatesToResearch(readCandidates) # <<>>
  /\ held' = [kind |-> "read", candidates |-> readCandidates]
  /\ UNCHANGED <<now, candidates, posts, topicHistory, files, statusSnapshot, pc,
                 collectorResult, researcherResult, generatorResult, thrown,
                 drafted, run, researchLog, calls>>

\* A write that replaces, row by row, only the records still collected in the file.
writeCandidates_RowLevel(array, file) ==
  [i \in 1 .. Len(file) |->
     IF file[i].status = "collected" /\ \E k \in 1 .. Len(array) : array[k].id = file[i].id
     THEN array[CHOOSE k \in 1 .. Len(array) : array[k].id = file[i].id]
     ELSE file[i]]

\* writeCandidates: writeJson replaces the contents of the file by the array.
writeCandidates(array, file) == array

\* writeCandidates(candidates): the array read earlier, with the candidates
\* researched meanwhile, replaces the file.
OtherResearcherWrite ==
  /\ held # Null
  /\ \E out \in [Ids(candidatesToResearch(held.candidates)) -> ResearchOutcomes] :
       candidates' = writeCandidates(ResearchAll(held.candidates, out, now), candidates)
  /\ held' = Null
  /\ UNCHANGED <<now, posts, topicHistory, files, statusSnapshot, pc,
                 collectorResult, researcherResult, generatorResult, thrown,
                 drafted, run, researchLog, calls>>

\* Two processes within one instant: the clock stands still.
NextConcurrent ==
  \/ StartPipeline
  \/ Exit
  \/ RunCollector
  \/ RunResearcher
  \/ RunGenerator
  \/ RunPublisher
  \/ OtherResearcherRead
  \/ OtherResearcherWrite

SpecConcurrent == Init /\ [][NextConcurrent]_vars

\* C26: the write of a Researcher that read the store earlier puts its whole
\* array in place of the file: whatever another process wrote to the store
\* since that read is gone, a candidate it did not research itself being
\* back exactly as it was read.
C26_WholeArrayWrite ==
  [][(held # Null /\ held' = Null) =>
       /\ Len(candidates') = Len(held.candidates)
       /\ \A k \in 1 .. Len(held.candidates) :
            /\ candidates'[k].id = held.candidates[k].id
            /\ held.candidates[k].status # "collected" => candidates'[k] = held.candidates[k]
            /\ held.candidates[k].status = "collected" => candidates'[k].status = "researched"]_vars

\* An update is lost: the Generator of another run has generated a candidate
\* and recorded it in the topic history, and the second Researcher's write
\* has put the candidate back to researched.
C26_Witness ==
  /\ held = Null
  /\ \E i \in 1 .. Len(candidates), k \in 1 .. Len(topicHistory) :
       /\ candidates[i].status = "researched"
       /\ topicHistory[k].draftUrl.name # ""
       /\ generatorResult # Null
       /\ generatorResult.generated
       /\ generatorResult.candidateId = candidates[i].id

\* ---------------------------------------------------------- C27: slugs
\* C27: no two different candidates the Generator has generated carry the
\* same slug and output file.
C27_SlugsDistinct ==
  \A i, j \in 1 .. Len(candidates) :
    (/\ i # j
     /\ candidates[i].status = "generated"
     /\ candidates[j].status = "generated")
      => /\ candidates[i].slug # candidates[j].slug
         /\ candidates[i].outputFile # candidates[j].outputFile

\* No Publisher run writes over the file of an article generated from
\* another candidate than the one it publishes.
PublisherKeepsOtherArticles ==
  [][\A f \in DOMAIN files :
       (f \in DOMAIN files' /\ files'[f] # files[f]) => files'[f].video = files[f].video]_vars

\* ------------------------------------------------------- search summaries
\* The most results one search response holds here.
MaxResults == 4

\* A host name as its labels; item.link is absent, is no URL, or has a host.
NoLink == [kind |-> "none"]
BadLink == [kind |-> "invalid"]
Url(hostname) == [kind |-> "url", hostname |-> hostname]

Hosts ==
  {<<"x", "com">>, <<"mobile", "twitter", "com">>, <<"netflix", "com">>,
   <<"example", "com">>}

Links == {NoLink, BadLink} \cup {Url(h) : h \in Hosts}

BLOCKED_DOMAINS ==
  {<<"x", "com">>, <<"twitter", "com">>, <<"t", "co">>, <<"facebook", "com">>,
   <<"instagram", "com">>, <<"youtube", "com">>, <<"youtu", "be">>,
   <<"m", "youtube", "com">>}

\* hostname.endsWith(`.${blocked}`)
EndsWithDot(hostname, blocked) ==
  /\ Len(hostname) > Len(blocked)
  /\ SubSeq(hostname, Len(hostname) - Len(blocked) + 1, Len(hostname)) = blocked

\* shouldSkipResult comparing whole host names only.
shouldSkipResult_ExactHost(url) ==
  IF url.kind # "url" THEN TRUE
  ELSE \E blocked \in BLOCKED_DOMAINS : url.hostname = blocked

\* shouldSkipResult: no link, a link URL() rejects, or a blocked host.
shouldSkipResult(url) ==
  IF url.kind # "url" THEN TRUE
  ELSE \E blocked \in BLOCKED_DOMAINS :
         url.hostname = blocked \/ EndsWithDot(url.hostname, blocked)

\* The items of a response: the k-th has rank k, which stands for its title
\* and snippet too.
ItemsOf(links) == [k \in 1 .. Len(links) |-> [rank |-> k, link |-> links[k]]]

\* What searchTopArticles gives: a thrown error or a response.
SearchResponses ==
  {[ok |-> FALSE, items |-> <<>>]} \cup
  {[ok |-> TRUE, items |-> ItemsOf(links)] :
     links \in UNION {[1 .. n -> Links] : n \in 0 .. MaxResults}}

desiredCount == IF GOOGLE_TOP_LIMIT > 1 THEN GOOGLE_TOP_LIMIT ELSE 1

filteredItems(items) == SelectSeq(items, LAMBDA item : ~shouldSkipResult(item.link))

\* filteredItems.slice(0, desiredCount), or items.slice(0, desiredCount)
\* when the filter left nothing.
limitedItems(items) ==
  IF Len(filteredItems(items)) > 0
  THEN Take(filteredItems(items), desiredCount)
  ELSE Take(items, desiredCount)

\* How summarising one item goes: the page is not fetched or is of low
\* quality, the AI summary is returned, the AI summary fails and a summary
\* is cut from the page text, or summarizeSearchResult throws.
SummaryOutcomes == {"low", "ai", "built", "throw"}

Snippet(item) == [kind |-> "snippet", rank |-> item.rank]

\* summarizeSearchResult, and the catch block around its call.
summarizeSearchResult(item, outcome) ==
  [title |-> item.rank, url |-> item.link, snippet |-> Snippet(item),
   summary |-> CASE outcome = "ai" /\ item.link.kind = "url" -> [kind |-> "ai", rank |-> item.rank]
                 [] outcome = "built" /\ item.link.kind = "url" -> [kind |-> "text", rank |-> item.rank]
                 [] OTHER -> Snippet(item)]

\* The loop over limitedItems leaving out the items whose summary failed.
Summaries_DropFailed(limited, outs) ==
  LET all == [k \in 1 .. Len(limited) |->
                [entry |-> summarizeSearchResult(limited[k], outs[k]), out |-> outs[k]]]
      kept == SelectSeq(all, LAMBDA e : e.out \notin {"low", "throw"})
  IN [k \in 1 .. Len(kept) |-> kept[k].entry]

\* The loop over limitedItems: one entry pushed per item.
Summaries(limited, outs) ==
  [k \in 1 .. Len(limited) |-> summarizeSearchResult(limited[k], outs[k])]

\* fetchSearchSummaries with the query and the keys present, entry by entry.
SearchSummaries(res, outs) ==
  IF ~res.ok THEN <<>> ELSE Summaries(limitedItems(res.items), outs)

\* One call of fetchSearchSummaries is studied at a time.
FetchSummaries ==
  /\ calls = <<>>
  /\ \E res \in SearchResponses :
       \E outs \in [1 .. Len(limitedItems(res.items)) -> SummaryOutcomes] :
         calls' = <<[res |-> res, outs |-> outs, value |-> SearchSummaries(res, outs)]>>
  /\ UNCHANGED <<now, candidates, posts, topicHistory, files, statusSnapshot, pc,
                 collectorResult, researcherResult, generatorResult, thrown,
                 drafted, run, researchLog, held>>

SpecSearch == Init /\ [][FetchSummaries]_vars

\* The social and video-hosting domains of the denylist.
Denylist ==
  {<<"x", "com">>, <<"twitter", "com">>, <<"t", "co">>, <<"facebook", "com">>,
   <<"instagram", "com">>, <<"youtube", "com">>, <<"youtu", "be">>}

\* The host is the domain or one of its subdomains.
IsOrSubdomainOf(hostname, domain) ==
  \E n \in 0 .. Len(hostname) :
    SubSeq(hostname, n + 1, Len(hostname)) = domain

OnDenylist(url) ==
  url.kind = "url" /\ \E d \in Denylist : IsOrSubdomainOf(url.hostname, d)

MaxPool == 3

\* The code units of "alxexlnb", whose hash is -2^31.
MinHashSeed == <<97, 108, 120, 101, 120, 108, 110, 98>>

\* Seeds by their code units: the empty seed, seeds with a positive and with
\* a negative hash, and the seed whose hash is -2^31.
PickSeeds ==
  {<<>>, CharCodes("a"), CharCodes("gemini-3"), CharCodes("ai-info"), MinHashSeed}

PickPools == {[k \in 1 .. n |-> [key |-> k]] : n \in 0 .. MaxPool}

\* deterministicPickFromPool called on its own.
Pick ==
  /\ Len(calls) < MaxCalls
  /\ \E pool \in PickPools, seed \in PickSeeds :
       calls' = Append(calls, [pool |-> pool, seed |-> seed,
                               value |-> deterministicPickFromPool(pool, seed)])
  /\ UNCHANGED <<now, candidates, posts, topicHistory, files, statusSnapshot, pc,
                 collectorResult, researcherResult, generatorResult, thrown,
                 drafted, run, researchLog, held>>

SpecPick == Init /\ [][Pick]_vars

\* The hash as the signed 32-bit integer it is.
Signed(hash) ==
  IF Negative(hash) THEN (hash.hi - Half) * Half + hash.lo
  ELSE hash.hi * Half + hash.lo

\* The hash of each seed as the loop computes it in 64-bit doubles.
ReferenceHash(seed) ==
  CASE seed = CharCodes("a") -> 97
    [] seed = CharCodes("gemini-3") -> 1785323163
    [] seed = CharCodes("ai-info") -> 0 - 1055599821
    [] seed = CharCodes("ai-info-blog") -> 866551292
    [] seed = MinHashSeed -> (0 - 2147483647) - 1
    [] OTHER -> 0

\* The two-halves arithmetic gives the hash the loop gives.
HashAgreesWithReference ==
  \A i \in 1 .. Len(calls) :
    Signed(HashOf(normalizedSeed(calls[i].seed)))
      = ReferenceHash(normalizedSeed(calls[i].seed))

\* Calls with the same pool and seed return the same element.
SameSeedSamePick ==
  \A i, j \in 1 .. Len(calls) :
    (calls[i].pool = calls[j].pool /\ calls[i].seed = calls[j].seed)
      => calls[i].value = calls[j].value

\* C30: for every non-empty pool and every seed the pick is pool[index],
\* index = |hash| mod length with the hash folded over the seed's own
\* characters; the index is in range, the same seed gives the same pick, and
\* an empty pool gives null.
C30_PickByHashOfSeed ==
  /\ \A i \in 1 .. Len(calls) :
       LET pool == calls[i].pool
           index == ModOf(AbsHash(HashOf(calls[i].seed)), Len(pool))
       IN IF Len(pool) = 0 THEN calls[i].value = Null
          ELSE index \in 0 .. Len(pool) - 1 /\ calls[i].value = pool[index + 1]
  /\ SameSeedSamePick

\* C30, with the seed the code hashes: the same, the hash being folded over
\* the characters of 'ai-info-blog' when the seed is empty.
C30_PickByHashOfNormalizedSeed ==
  /\ \A i \in 1 .. Len(calls) :
       LET pool == calls[i].pool
           hashed == IF calls[i].seed = <<>> THEN CharCodes("ai-info-blog")
                     ELSE calls[i].seed
           index == ModOf(AbsHash(HashOf(hashed)), Len(pool))
       IN IF Len(pool) = 0 THEN calls[i].value = Null
          ELSE index \in 0 .. Len(pool) - 1 /\ calls[i].value = pool[index + 1]
  /\ SameSeedSamePick

\* A pick with the hash -2^31 and one with another negative hash, from the
\* longest pool, and an empty seed.
C30_Witness ==
  \E i, j \in 1 .. Len(calls) :
    /\ calls[i].seed = MinHashSeed
    /\ Signed(HashOf(calls[i].seed)) = (0 - 2147483647) - 1
    /\ Len(calls[i].pool) = MaxPool
    /\ calls[i].value # Null
    /\ Negative(HashOf(calls[j].seed))
    /\ calls[j].seed # MinHashSeed
    /\ Len(calls[j].pool) = MaxPool
    /\ calls[j].value # Null

====
